---------------------------- MODULE Spec2Model ----------------------------
(***************************************************************************)
(* The netkeeper watchdog: the poll / decide / act / sleep loop of         *)
(* netkeeper.bin.netkeeper.run, with the helpers it calls                  *)
(* (is_connection_error, restart_modem_and_wait_for_alive, call_systemd    *)
(* and the service predicates), and the SIGINT handler of main.            *)
(*                                                                         *)
(* Specifications:                                                         *)
(*   Spec        the loop, with no signal delivered                        *)
(*   SpecLive    the loop with SIGINT delivered at any point               *)
(*   SpecHealth  one call of is_connection_error on arbitrary inputs       *)
(*   SpecWait    the loop with a device that comes back after a reboot     *)
(*   SpecPair    the loop next to the loop of granad_gatekeeper.run, both  *)
(*               fed the same observations                                 *)
(*                                                                         *)
(* The loop is one sequential thread.  pc is its position:                 *)
(*   "probe"    top of the while loop, about to call is_connection_error   *)
(*   "query"    probe said degraded, about to query the modem (l.285-287)  *)
(*   "reboot"   in restart_modem_and_wait_for_alive, before device.reboot  *)
(*   "settle"   reboot accepted, in time.sleep(20) (l.234)                 *)
(*   "attempt"  about to reload the session and fetch the status (l.238)   *)
(*   "retry"    attempt failed, in time.sleep(20) (l.244)                  *)
(*   "sleep"    at time.sleep(sleep_time) (l.357)                          *)
(*   "svc_query"   in the for loop of l.353, at the test of l.354          *)
(*   "svc_restart" at restart_service (l.355)                              *)
(*   "crashed"  ended by an exception nothing catches                      *)
(*   "exited"   ended by the SIGINT handler (l.415)                        *)
(*   "call"     only in SpecHealth: about to call is_connection_error      *)
(*                                                                         *)
(* Variables below the line "history" are not program state: they record   *)
(* what the current and the previous poll cycle did, so that properties    *)
(* about whole cycles can be stated as state predicates.                   *)
(***************************************************************************)
EXTENDS Integers, Sequences, FiniteSets, TLC

VARIABLES
    pc,
    connected_counter,      \* run, l.274
    connecting_counter,     \* run, l.275
    restart_counter,        \* run, l.276
    after_reboot,           \* run, l.278
    sleep_time,             \* run local; 0 = not yet assigned
    connection_status,      \* run local, l.290; "unset" before the first query
    lte_signal,             \* run local, l.291; -1 before the first query
    slept,                  \* duration of the most recent time.sleep call
    \* ---- history ----
    observed,               \* what this cycle saw: "none", "healthy", "queryfail", "status"
    prev,                   \* the previous cycle: [obs, status]
    start,                  \* the watchdog state when this cycle began
    decision,               \* reboot decision reached in this cycle: "none", "reboot", "cooldown"
    reboot_cmd,             \* device.reboot() in this cycle: "none", "ok", "error"
    waitsReturned,          \* reboot-waits returned since the last healthy or cooldown cycle
    cmdsSince,              \* device.reboot() calls since then (saturating)
    okCmdsSince,            \* device.reboot() calls that returned normally since then
    afterCooldown,          \* a cooldown happened and no reboot decision since
    probe_err,              \* the probe of this cycle raised MultiPingSocketError and
                            \* the device has not been queried yet
    pass_started,           \* the service loop of l.353 was entered in this cycle
    passes,                 \* service loops entered since the last reboot-wait return (saturating)
    restart_failed,         \* a restart_service call of this cycle returned False
    \* ---- service loop (l.353-356) ----
    svc_idx,                \* position in options.RESTART_SERVICES; 0 outside the loop
    svc_cur,                \* what systemctl says of the service being handled
    \* ---- environment and process ----
    sig_pending,            \* SIGINT delivered, handler of l.415 not yet run
    sig_at,                 \* history: where the loop was when SIGINT was delivered
    exit_code,              \* -1 while the process runs
    ev,                     \* one call of is_connection_error: its inputs and result
    \* ---- granad_gatekeeper ----
    gk                      \* the locals of granad_gatekeeper.run (l.214-217), and
                            \* whether its current cycle called device.reboot()

vars == <<pc, connected_counter, connecting_counter, restart_counter, after_reboot,
          sleep_time, connection_status, lte_signal, slept,
          observed, prev, start, decision, reboot_cmd,
          waitsReturned, cmdsSince, okCmdsSince, afterCooldown,
          probe_err, pass_started, passes, restart_failed, svc_idx, svc_cur,
          sig_pending, sig_at, exit_code, ev, gk>>

svcVars == <<pass_started, passes, restart_failed, svc_idx, svc_cur>>

envVars == <<sig_pending, sig_at, exit_code, ev>>

progVars == <<connected_counter, connecting_counter, restart_counter, after_reboot>>

-----------------------------------------------------------------------------
(* Configuration (netkeeper/config.py) and constants of run.               *)

max_restarts == 5

NumTargets == 3

TARGETS_FAIL_THRESHOLD == 50

CHECK_INTERVAL == 60

(* Largest SignalIcon value the model lets the modem report.               *)
MaxSignal == 3

CONNECTED == "Connected"

CONNECTING == "Connecting"

(* ConnectionStatusEnum, plus "Unknown" for any other integer code.        *)
Statuses == {"Connected", "Connecting", "Disconnected", "Disconnecting",
             "ConnectFailed", "ConnectStatusError", "ConnectStatusNull", "Unknown"}

Signals == 0..MaxSignal

(* What multi_ping can do: raise MultiPingSocketError (err), or return the *)
(* list of targets that did not answer (no is its length).                 *)
ProbeOutcomes == {[err |-> TRUE, no |-> 0]}
                 \cup {[err |-> FALSE, no |-> n] : n \in 0..NumTargets}

Min(a, b) == IF a < b THEN a ELSE b

-----------------------------------------------------------------------------
(* Python float arithmetic of l.223-224:                                   *)
(*     error_rate = (len(no_responses) / len(targets)) * 100               *)
(*     return error_rate > threshold                                       *)
(* Both operations are IEEE-754 binary64, round to nearest, ties to even.  *)
(* A significand is kept as NumLimbs digits of base LimbBase, most         *)
(* significant first: 54 bits, the lowest being the guard bit.             *)

LimbBits == 3 * 3

LimbBase == 2 ^ LimbBits

NumLimbs == 2 * 3

(* Normalise n/d (0 < n < d) into [1/2, 1): r/d = (n/d) * 2^z.             *)
RECURSIVE LeadingZeros(_, _, _)
LeadingZeros(r, d, z) ==
    IF 2 * r >= d THEN [r |-> r, z |-> z] ELSE LeadingZeros(2 * r, d, z + 1)

(* Long division: the first k base-LimbBase digits of r/d, and the rest.   *)
RECURSIVE DivLimbs(_, _, _, _)
DivLimbs(r, d, k, acc) ==
    IF k = 0 THEN [limbs |-> acc, rem |-> r]
    ELSE DivLimbs((r * LimbBase) % d, d, k - 1, Append(acc, (r * LimbBase) \div d))

(* Add c at digit i and carry towards digit 1, which may grow past a digit.*)
RECURSIVE AddAt(_, _, _)
AddAt(limbs, i, c) ==
    IF c = 0 THEN limbs
    ELSE IF i = 1 THEN [limbs EXCEPT ![1] = limbs[1] + c]
    ELSE LET v == limbs[i] + c
         IN AddAt([limbs EXCEPT ![i] = v % LimbBase], i - 1, v \div LimbBase)

(* Round away the s lowest bits of the last digit, to nearest, ties to     *)
(* even; sticky says that nonzero bits lie below the digits.               *)
RoundLow(limbs, s, sticky) ==
    LET n == Len(limbs)
        low == limbs[n]
        unit == 2 ^ s
        rem == low % unit
        kept == low \div unit
        half == unit \div 2
        up == rem > half \/ (rem = half /\ (sticky \/ kept % 2 = 1))
    IN AddAt([limbs EXCEPT ![n] = low - rem], n, IF up THEN unit ELSE 0)

(* n / d for 0 < n < d: the 53-bit significand (times 2) and the exponent. *)
FloatDiv(n, d) ==
    LET nz == LeadingZeros(n, d, 0)
        q == DivLimbs(nz.r, d, NumLimbs, <<>>)
    IN [limbs |-> RoundLow(q.limbs, 1, q.rem # 0), z |-> nz.z]

RECURSIVE MulLimbs(_, _, _, _)
MulLimbs(limbs, i, c, carry) ==
    IF i = 0 THEN <<carry>> \o limbs
    ELSE LET v == limbs[i] * c + carry
         IN MulLimbs([limbs EXCEPT ![i] = v % LimbBase], i - 1, c, v \div LimbBase)

(* x * 100: the exact product has 60 or 61 bits, of which 53 are kept.     *)
FloatMul100(x) ==
    LET p == MulLimbs(x.limbs, NumLimbs, 100, 0)
        s == IF p[1] < 64 THEN 7 ELSE 8
    IN [limbs |-> RoundLow(p, s, FALSE), z |-> x.z]

(* y > t for an integer t: y = (limbs[1] + fraction) / 2^z.                *)
FloatGreaterThanInt(y, t) ==
    LET top == y.limbs[1]
        low == \E i \in 2..Len(y.limbs) : y.limbs[i] # 0
        tz == t * 2 ^ y.z
    IN top > tz \/ (top = tz /\ low)

(* (n / d) * 100 > t, for 0 <= n <= d and d > 0.                           *)
ErrorRateAbove(n, d, t) ==
    IF n = 0 THEN 0 > t
    ELSE IF n = d THEN 100 > t
    ELSE FloatGreaterThanInt(FloatMul100(FloatDiv(n, d)), t)

(* Mutant: a probe that cannot open its socket counts as healthy.          *)
is_connection_error_FailOpen(outcome, nTargets, threshold) ==
    IF outcome.err
      THEN FALSE
      ELSE ErrorRateAbove(outcome.no, nTargets, threshold)

(* is_connection_error, l.220-226: MultiPingSocketError gives True,        *)
(* otherwise the error rate is compared with the threshold.                *)
is_connection_error(outcome, nTargets, threshold) ==
    IF outcome.err
      THEN TRUE
      ELSE ErrorRateAbove(outcome.no, nTargets, threshold)

(* The outcomes of the probe of l.281 on which the loop takes either way.  *)
DegradedOutcomes ==
    {o \in ProbeOutcomes : is_connection_error(o, NumTargets, TARGETS_FAIL_THRESHOLD)}

HealthyOutcomes == ProbeOutcomes \ DegradedOutcomes

-----------------------------------------------------------------------------
(* Service handling, l.247-266 and l.353-356.                              *)

(* Length of options.RESTART_SERVICES the model runs with.                 *)
NumServices == 2

(* What systemctl reports of a unit: is-enabled and is-active exit with 0. *)
ServiceStates == [enabled : BOOLEAN, active : BOOLEAN]

NoService == [enabled |-> FALSE, active |-> FALSE]

(* call_systemd, l.247-254, with systemctl present: the exit status of     *)
(* "systemctl <argument> <service>" compared with 0.                       *)
call_systemd(svc, argument) ==
    IF argument = "is-enabled" THEN svc.enabled ELSE svc.active

(* l.257-258: the argument passed is 'is-enabled'.                         *)
is_service_active(svc) == call_systemd(svc, "is-enabled")

(* l.261-262.                                                              *)
is_service_enabled(svc) == call_systemd(svc, "is-enabled")

(* The test of l.354.                                                      *)
ShouldRestart(svc) == is_service_active(svc) \/ is_service_enabled(svc)

-----------------------------------------------------------------------------
(* One call of is_connection_error on its own, for the properties of the   *)
(* function: the inputs range over up to MaxTargets targets, every number  *)
(* of them unreachable, and the thresholds 0..MaxThreshold.                *)

MaxTargets == 20

MaxThreshold == 60

EvaluatorCalls ==
    {c \in [targets : 1..MaxTargets,
            outcome : {[err |-> TRUE, no |-> 0]}
                      \cup {[err |-> FALSE, no |-> n] : n \in 0..MaxTargets},
            threshold : 0..MaxThreshold,
            done : {FALSE},
            result : {FALSE}] : c.outcome.no <= c.targets}

(* The call of l.281 with the shipped configuration, before it is made.    *)
ConfiguredCall ==
    [targets |-> NumTargets, outcome |-> [err |-> FALSE, no |-> 0],
     threshold |-> TARGETS_FAIL_THRESHOLD, done |-> FALSE, result |-> FALSE]

-----------------------------------------------------------------------------
-----------------------------------------------------------------------------
(* granad_gatekeeper.bin.granad_gatekeeper.run, l.214-279: the same loop   *)
(* without a restart budget and with a reboot command that is not waited   *)
(* for.  Its locals are the fields of one record; rebooted records whether *)
(* the cycle called client.device.reboot().                                *)

(* l.214-217.                                                              *)
GranadInit ==
    [connected_counter |-> 0, connecting_counter |-> 0, after_reboot |-> FALSE,
     sleep_time |-> CHECK_INTERVAL, rebooted |-> FALSE]

(* Mutant: the reboot of granad_gatekeeper keeps connecting_counter.       *)
GranadConnectingKeepsCounter(s) ==
    IF s.connecting_counter = 0
      THEN [s EXCEPT !.sleep_time = 60 * 2,
                     !.connecting_counter = s.connecting_counter + 1]
      ELSE [s EXCEPT !.rebooted = TRUE,
                     !.after_reboot = TRUE,
                     !.sleep_time = 60 * 2]

(* l.231-247: ConnectionStatus is CONNECTED.                               *)
GranadConnected(s, sig) ==
    IF s.connected_counter = 0
      THEN [s EXCEPT !.sleep_time = 60,
                     !.connected_counter = s.connected_counter + 1]
      ELSE IF sig < 2
             THEN [s EXCEPT !.connected_counter = 0,
                            !.rebooted = TRUE,
                            !.after_reboot = TRUE,
                            !.sleep_time = 60 * 2]
             ELSE [s EXCEPT !.sleep_time = CHECK_INTERVAL]

(* l.248-259: ConnectionStatus is CONNECTING.                              *)
GranadConnecting(s) ==
    IF s.connecting_counter = 0
      THEN [s EXCEPT !.sleep_time = 60 * 2,
                     !.connecting_counter = s.connecting_counter + 1]
      ELSE [s EXCEPT !.connecting_counter = 0,
                     !.rebooted = TRUE,
                     !.after_reboot = TRUE,
                     !.sleep_time = 60 * 2]

(* l.261-266: any other ConnectionStatus.                                  *)
GranadOther(s) ==
    [s EXCEPT !.rebooted = TRUE, !.after_reboot = TRUE, !.sleep_time = 60 * 5]

(* l.271-278: the probe says healthy.                                      *)
GranadHealthy(s) ==
    [s EXCEPT !.connected_counter = 0,
              !.connecting_counter = 0,
              !.sleep_time = CHECK_INTERVAL,
              !.after_reboot = FALSE]

(* l.229-266: the probe says degraded and the modem answers with status    *)
(* st and signal level sig.                                                *)
GranadDegraded(s, st, sig) ==
    IF st = CONNECTED
      THEN GranadConnected(s, sig)
      ELSE IF st = CONNECTING
             THEN GranadConnecting(s)
             ELSE GranadOther(s)

(* One pass of the while loop of l.219, started with no reboot called.     *)
GranadHealthyCycle == gk' = GranadHealthy([gk EXCEPT !.rebooted = FALSE])

GranadDegradedCycle(st, sig) ==
    gk' = GranadDegraded([gk EXCEPT !.rebooted = FALSE], st, sig)

Init ==
    /\ pc = "probe"
    /\ connected_counter = 0
    /\ connecting_counter = 0
    /\ restart_counter = 0
    /\ after_reboot = FALSE
    /\ sleep_time = 0
    /\ connection_status = "unset"
    /\ lte_signal = -1
    /\ slept = 0
    /\ observed = "none"
    /\ prev = [obs |-> "none", status |-> "unset"]
    /\ start = [cc |-> 0, cg |-> 0, rc |-> 0, ar |-> FALSE]
    /\ decision = "none"
    /\ reboot_cmd = "none"
    /\ waitsReturned = 0
    /\ cmdsSince = 0
    /\ okCmdsSince = 0
    /\ afterCooldown = FALSE
    /\ probe_err = FALSE
    /\ pass_started = FALSE
    /\ passes = 0
    /\ restart_failed = FALSE
    /\ svc_idx = 0
    /\ svc_cur = NoService
    /\ sig_pending = FALSE
    /\ sig_at = "none"
    /\ exit_code = -1
    /\ ev = ConfiguredCall
    /\ gk = GranadInit

(* Mutant: the budget test is off by one (<= for <).                      *)
RebootDecisionOffByOne ==
    IF restart_counter <= max_restarts
      THEN /\ pc' = "reboot"
           /\ decision' = "reboot"
           /\ UNCHANGED <<restart_counter, sleep_time, waitsReturned,
                          cmdsSince, okCmdsSince>>
      ELSE /\ sleep_time' = 60 * 60
           /\ restart_counter' = 0
           /\ pc' = "sleep"
           /\ decision' = "cooldown"
           /\ waitsReturned' = 0
           /\ cmdsSince' = 0
           /\ okCmdsSince' = 0

(* Mutant: the cooldown branch forgets restart_counter = 0.                *)
RebootDecisionNoReset ==
    IF restart_counter < max_restarts
      THEN /\ pc' = "reboot"
           /\ decision' = "reboot"
           /\ UNCHANGED <<restart_counter, sleep_time, waitsReturned,
                          cmdsSince, okCmdsSince>>
      ELSE /\ sleep_time' = 60 * 60
           /\ UNCHANGED restart_counter
           /\ pc' = "sleep"
           /\ decision' = "cooldown"
           /\ waitsReturned' = 0
           /\ cmdsSince' = 0
           /\ okCmdsSince' = 0

(* The reboot decision, l.302-309 (the same code again at l.321-328 and    *)
(* l.332-339): below the budget call restart_modem_and_wait_for_alive,     *)
(* otherwise sleep an hour and reset the budget.                           *)
RebootDecision ==
    IF restart_counter < max_restarts
      THEN /\ pc' = "reboot"
           /\ decision' = "reboot"
           /\ UNCHANGED <<restart_counter, sleep_time, waitsReturned,
                          cmdsSince, okCmdsSince>>
      ELSE /\ sleep_time' = 60 * 60
           /\ restart_counter' = 0
           /\ pc' = "sleep"
           /\ decision' = "cooldown"
           /\ waitsReturned' = 0
           /\ cmdsSince' = 0
           /\ okCmdsSince' = 0

(* A branch that only waits: sets sleep_time and falls through to l.357.   *)
Wait(t) ==
    /\ sleep_time' = t
    /\ pc' = "sleep"
    /\ UNCHANGED <<restart_counter, decision, waitsReturned, cmdsSince, okCmdsSince>>

(* Mutant: the bad-signal branch forgets connected_counter = 0.            *)
OnConnectedNoReset(sig) ==
    /\ UNCHANGED connecting_counter
    /\ IF connected_counter = 0
         THEN /\ connected_counter' = connected_counter + 1
              /\ Wait(60)
         ELSE IF sig < 2
                THEN /\ UNCHANGED connected_counter
                     /\ RebootDecision
                ELSE /\ UNCHANGED connected_counter
                     /\ Wait(CHECK_INTERVAL)

(* Mutant: the signal is tested before the repeat counter.                 *)
OnConnectedSignalFirst(sig) ==
    /\ UNCHANGED connecting_counter
    /\ IF sig < 2
         THEN /\ connected_counter' = 0
              /\ RebootDecision
         ELSE IF connected_counter = 0
                THEN /\ connected_counter' = connected_counter + 1
                     /\ Wait(60)
                ELSE /\ UNCHANGED connected_counter
                     /\ Wait(CHECK_INTERVAL)

(* Mutant: the signal floor is 3 instead of 2.                             *)
OnConnectedFloor3(sig) ==
    /\ UNCHANGED connecting_counter
    /\ IF connected_counter = 0
         THEN /\ connected_counter' = connected_counter + 1
              /\ Wait(60)
         ELSE IF sig < 3
                THEN /\ connected_counter' = 0
                     /\ RebootDecision
                ELSE /\ UNCHANGED connected_counter
                     /\ Wait(CHECK_INTERVAL)

(* l.292-312: the modem reports CONNECTED.                                 *)
OnConnected(sig) ==
    /\ UNCHANGED connecting_counter
    /\ IF connected_counter = 0
         THEN /\ connected_counter' = connected_counter + 1
              /\ Wait(60)
         ELSE IF sig < 2
                THEN /\ connected_counter' = 0
                     /\ RebootDecision
                ELSE /\ UNCHANGED connected_counter
                     /\ Wait(CHECK_INTERVAL)

(* Mutant: the first CONNECTING observation waits 1 minute, as CONNECTED.  *)
OnConnectingOneMinute ==
    /\ UNCHANGED connected_counter
    /\ IF connecting_counter = 0
         THEN /\ connecting_counter' = connecting_counter + 1
              /\ Wait(60)
         ELSE /\ connecting_counter' = 0
              /\ RebootDecision

(* l.313-328: the modem reports CONNECTING.                                *)
OnConnecting ==
    /\ UNCHANGED connected_counter
    /\ IF connecting_counter = 0
         THEN /\ connecting_counter' = connecting_counter + 1
              /\ Wait(60 * 2)
         ELSE /\ connecting_counter' = 0
              /\ RebootDecision

(* Mutant: the other statuses clear the repeat counters.                   *)
OnOtherClearsCounters ==
    /\ connected_counter' = 0
    /\ connecting_counter' = 0
    /\ RebootDecision

(* l.330-339: any other status.                                            *)
OnOther ==
    /\ UNCHANGED <<connected_counter, connecting_counter>>
    /\ RebootDecision

(* l.353: what the for loop does after handling service number svc_idx.   *)
NextService ==
    IF svc_idx = NumServices
      THEN pc' = "sleep" /\ svc_idx' = 0
      ELSE pc' = "svc_query" /\ svc_idx' = svc_idx + 1

(* Mutant: the healthy path forgets after_reboot = False (l.351).         *)
HealthyKeepsFlag ==
    /\ pc = "probe"
    /\ ~sig_pending
    /\ \E outcome \in HealthyOutcomes : probe_err' = outcome.err
    /\ connected_counter' = 0
    /\ connecting_counter' = 0
    /\ restart_counter' = 0
    /\ sleep_time' = CHECK_INTERVAL
    /\ UNCHANGED after_reboot
    /\ IF after_reboot
         THEN /\ pass_started' = TRUE
              /\ passes' = Min(passes + 1, 2)
              /\ IF NumServices = 0
                   THEN pc' = "sleep" /\ svc_idx' = 0
                   ELSE pc' = "svc_query" /\ svc_idx' = 1
         ELSE /\ pc' = "sleep"
              /\ UNCHANGED <<pass_started, passes, svc_idx>>
    /\ observed' = "healthy"
    /\ waitsReturned' = 0
    /\ cmdsSince' = 0
    /\ okCmdsSince' = 0
    /\ UNCHANGED <<connection_status, lte_signal, slept, prev, start, decision,
                   reboot_cmd, afterCooldown>>
    /\ UNCHANGED <<restart_failed, svc_cur, envVars>>

(* Mutant: a healthy cycle leaves the restart count alone.                 *)
HealthyKeepsRestartCount ==
    /\ pc = "probe"
    /\ ~sig_pending
    /\ \E outcome \in HealthyOutcomes : probe_err' = outcome.err
    /\ connected_counter' = 0
    /\ connecting_counter' = 0
    /\ UNCHANGED restart_counter
    /\ sleep_time' = CHECK_INTERVAL
    /\ after_reboot' = FALSE
    /\ IF after_reboot
         THEN /\ pass_started' = TRUE
              /\ passes' = Min(passes + 1, 2)
              /\ IF NumServices = 0
                   THEN pc' = "sleep" /\ svc_idx' = 0
                   ELSE pc' = "svc_query" /\ svc_idx' = 1
         ELSE /\ pc' = "sleep"
              /\ UNCHANGED <<pass_started, passes, svc_idx>>
    /\ observed' = "healthy"
    /\ waitsReturned' = 0
    /\ cmdsSince' = 0
    /\ okCmdsSince' = 0
    /\ UNCHANGED <<connection_status, lte_signal, slept, prev, start, decision,
                   reboot_cmd, afterCooldown>>
    /\ UNCHANGED <<restart_failed, svc_cur, envVars>>

(* l.281 returning False, then l.345-352: the counters are reset, and with *)
(* after_reboot set the flag is cleared and the loop over                  *)
(* options.RESTART_SERVICES is entered; otherwise l.357 follows.           *)
Healthy ==
    /\ pc = "probe"
    /\ ~sig_pending
    /\ \E outcome \in HealthyOutcomes : probe_err' = outcome.err
    /\ connected_counter' = 0
    /\ connecting_counter' = 0
    /\ restart_counter' = 0
    /\ sleep_time' = CHECK_INTERVAL
    /\ after_reboot' = FALSE
    /\ IF after_reboot
         THEN /\ pass_started' = TRUE
              /\ passes' = Min(passes + 1, 2)
              /\ IF NumServices = 0
                   THEN pc' = "sleep" /\ svc_idx' = 0
                   ELSE pc' = "svc_query" /\ svc_idx' = 1
         ELSE /\ pc' = "sleep"
              /\ UNCHANGED <<pass_started, passes, svc_idx>>
    /\ observed' = "healthy"
    /\ waitsReturned' = 0
    /\ cmdsSince' = 0
    /\ okCmdsSince' = 0
    /\ UNCHANGED <<connection_status, lte_signal, slept, prev, start, decision,
                   reboot_cmd, afterCooldown>>
    /\ UNCHANGED <<restart_failed, svc_cur, envVars>>

(* Mutant: a degraded probe clears the repeat counters.                    *)
DegradedClearsCounters ==
    /\ pc = "probe"
    /\ ~sig_pending
    /\ \E outcome \in DegradedOutcomes : probe_err' = outcome.err
    /\ pc' = "query"
    /\ connected_counter' = 0
    /\ connecting_counter' = 0
    /\ UNCHANGED <<restart_counter, after_reboot, sleep_time, connection_status, lte_signal, slept,
                   observed, prev, start, decision, reboot_cmd,
                   waitsReturned, cmdsSince, okCmdsSince, afterCooldown>>
    /\ UNCHANGED <<svcVars, envVars>>

(* l.281 returning True: the loop enters the try block of l.284.           *)
Degraded ==
    /\ pc = "probe"
    /\ ~sig_pending
    /\ \E outcome \in DegradedOutcomes : probe_err' = outcome.err
    /\ pc' = "query"
    /\ UNCHANGED <<progVars, sleep_time, connection_status, lte_signal, slept,
                   observed, prev, start, decision, reboot_cmd,
                   waitsReturned, cmdsSince, okCmdsSince, afterCooldown>>
    /\ UNCHANGED <<svcVars, envVars>>

(* Mutant: a failed query clears the repeat counters.                      *)
QueryFailClearsCounters ==
    /\ pc = "query"
    /\ ~sig_pending
    /\ sleep_time' = 60 * 10
    /\ pc' = "sleep"
    /\ observed' = "queryfail"
    /\ connected_counter' = 0
    /\ connecting_counter' = 0
    /\ UNCHANGED <<restart_counter, after_reboot, connection_status, lte_signal,
                   slept, prev, start, decision, reboot_cmd, waitsReturned,
                   cmdsSince, okCmdsSince, afterCooldown>>
    /\ probe_err' = FALSE
    /\ UNCHANGED <<svcVars, envVars>>

(* l.285-287 raising ResponseErrorException, caught at l.341-343.          *)
QueryFail ==
    /\ pc = "query"
    /\ ~sig_pending
    /\ sleep_time' = 60 * 10
    /\ pc' = "sleep"
    /\ observed' = "queryfail"
    /\ UNCHANGED <<progVars, connection_status, lte_signal, slept, prev, start,
                   decision, reboot_cmd, waitsReturned, cmdsSince, okCmdsSince,
                   afterCooldown>>
    /\ probe_err' = FALSE
    /\ UNCHANGED <<svcVars, envVars>>

(* l.285-339 with the query answered: the status and signal are read and   *)
(* the branch for the status runs, up to a wait, a cooldown or the call    *)
(* of restart_modem_and_wait_for_alive.                                    *)
QueryOk ==
    /\ pc = "query"
    /\ ~sig_pending
    /\ \E st \in Statuses, sig \in Signals :
          /\ connection_status' = st
          /\ lte_signal' = sig
          /\ IF st = CONNECTED
               THEN OnConnected(sig)
               ELSE IF st = CONNECTING
                      THEN OnConnecting
                      ELSE OnOther
    /\ observed' = "status"
    /\ afterCooldown' = IF decision' = "cooldown" THEN TRUE
                        ELSE IF decision' = "reboot" THEN FALSE
                        ELSE afterCooldown
    /\ UNCHANGED <<after_reboot, slept, prev, start, reboot_cmd>>
    /\ probe_err' = FALSE
    /\ UNCHANGED <<svcVars, envVars>>

(* Mutant: the reboot command is fire-and-forget: no wait follows.         *)
RebootCmdOkNoWait ==
    /\ pc = "reboot"
    /\ ~sig_pending
    /\ pc' = "sleep"
    /\ reboot_cmd' = "ok"
    /\ cmdsSince' = Min(cmdsSince + 1, max_restarts + 1)
    /\ okCmdsSince' = Min(okCmdsSince + 1, max_restarts + 1)
    /\ UNCHANGED <<progVars, sleep_time, connection_status, lte_signal, slept,
                   observed, prev, start, decision, waitsReturned, afterCooldown>>
    /\ UNCHANGED <<probe_err, svcVars, envVars>>

(* l.232: client.device.reboot() returns.                                  *)
RebootCmdOk ==
    /\ pc = "reboot"
    /\ ~sig_pending
    /\ pc' = "settle"
    /\ reboot_cmd' = "ok"
    /\ cmdsSince' = Min(cmdsSince + 1, max_restarts + 1)
    /\ okCmdsSince' = Min(okCmdsSince + 1, max_restarts + 1)
    /\ UNCHANGED <<progVars, sleep_time, connection_status, lte_signal, slept,
                   observed, prev, start, decision, waitsReturned, afterCooldown>>
    /\ UNCHANGED <<probe_err, svcVars, envVars>>

(* Mutant: a refused reboot command sets after_reboot all the same.       *)
RebootCmdFailSetsFlag ==
    /\ pc = "reboot"
    /\ ~sig_pending
    /\ sleep_time' = 60 * 10
    /\ pc' = "sleep"
    /\ reboot_cmd' = "error"
    /\ cmdsSince' = Min(cmdsSince + 1, max_restarts + 1)
    /\ after_reboot' = TRUE
    /\ UNCHANGED <<connected_counter, connecting_counter, restart_counter,
                   connection_status, lte_signal, slept, observed, prev,
                   start, decision, waitsReturned, okCmdsSince, afterCooldown>>
    /\ UNCHANGED <<probe_err, svcVars, envVars>>

(* Mutant: a refused reboot command counts against the budget.             *)
RebootCmdFailCounts ==
    /\ pc = "reboot"
    /\ ~sig_pending
    /\ sleep_time' = 60 * 10
    /\ pc' = "sleep"
    /\ reboot_cmd' = "error"
    /\ cmdsSince' = Min(cmdsSince + 1, max_restarts + 1)
    /\ restart_counter' = restart_counter + 1
    /\ UNCHANGED <<connected_counter, connecting_counter, after_reboot,
                   connection_status, lte_signal, slept, observed, prev,
                   start, decision, waitsReturned, okCmdsSince, afterCooldown>>
    /\ UNCHANGED <<probe_err, svcVars, envVars>>

(* l.232: client.device.reboot() raises ResponseErrorException; it leaves  *)
(* restart_modem_and_wait_for_alive and is caught at l.341-343.            *)
RebootCmdFail ==
    /\ pc = "reboot"
    /\ ~sig_pending
    /\ sleep_time' = 60 * 10
    /\ pc' = "sleep"
    /\ reboot_cmd' = "error"
    /\ cmdsSince' = Min(cmdsSince + 1, max_restarts + 1)
    /\ UNCHANGED <<progVars, connection_status, lte_signal, slept, observed, prev,
                   start, decision, waitsReturned, okCmdsSince, afterCooldown>>
    /\ UNCHANGED <<probe_err, svcVars, envVars>>

(* l.234: time.sleep(20) after the reboot command.                         *)
Settle ==
    /\ pc = "settle"
    /\ ~sig_pending
    /\ slept' = 20
    /\ pc' = "attempt"
    /\ UNCHANGED <<progVars, sleep_time, connection_status, lte_signal,
                   observed, prev, start, decision, reboot_cmd,
                   waitsReturned, cmdsSince, okCmdsSince, afterCooldown>>
    /\ UNCHANGED <<probe_err, svcVars, envVars>>

(* Mutant: the caller forgets after_reboot = True.                         *)
AttemptOkNoFlag ==
    /\ pc = "attempt"
    /\ ~sig_pending
    /\ restart_counter' = restart_counter + 1
    /\ UNCHANGED after_reboot
    /\ sleep_time' = 1
    /\ pc' = "sleep"
    /\ waitsReturned' = waitsReturned + 1
    /\ UNCHANGED <<connected_counter, connecting_counter, connection_status,
                   lte_signal, slept, observed, prev, start, decision,
                   reboot_cmd, cmdsSince, okCmdsSince, afterCooldown>>
    /\ passes' = 0
    /\ UNCHANGED <<probe_err, pass_started, restart_failed, svc_idx, svc_cur, envVars>>

(* l.238-241 succeed and restart_modem_and_wait_for_alive returns; the     *)
(* caller goes on with l.304-306 (l.323-325, l.334-336).                   *)
AttemptOk ==
    /\ pc = "attempt"
    /\ ~sig_pending
    /\ restart_counter' = restart_counter + 1
    /\ after_reboot' = TRUE
    /\ sleep_time' = 1
    /\ pc' = "sleep"
    /\ waitsReturned' = waitsReturned + 1
    /\ UNCHANGED <<connected_counter, connecting_counter, connection_status,
                   lte_signal, slept, observed, prev, start, decision,
                   reboot_cmd, cmdsSince, okCmdsSince, afterCooldown>>
    /\ passes' = 0
    /\ UNCHANGED <<probe_err, pass_started, restart_failed, svc_idx, svc_cur, envVars>>

(* Mutant: a failed attempt ends the reboot-wait.                          *)
AttemptFailGivesUp ==
    /\ pc = "attempt"
    /\ ~sig_pending
    /\ pc' = "sleep"
    /\ UNCHANGED <<progVars, sleep_time, connection_status, lte_signal, slept,
                   observed, prev, start, decision, reboot_cmd,
                   waitsReturned, cmdsSince, okCmdsSince, afterCooldown>>
    /\ UNCHANGED <<probe_err, svcVars, envVars>>

(* l.238-239 raise ResponseErrorException, caught at l.242.                *)
AttemptFail ==
    /\ pc = "attempt"
    /\ ~sig_pending
    /\ pc' = "retry"
    /\ UNCHANGED <<progVars, sleep_time, connection_status, lte_signal, slept,
                   observed, prev, start, decision, reboot_cmd,
                   waitsReturned, cmdsSince, okCmdsSince, afterCooldown>>
    /\ UNCHANGED <<probe_err, svcVars, envVars>>

(* Mutant: the delay after a failed attempt is 1 second.                   *)
RetrySleepShort ==
    /\ pc = "retry"
    /\ ~sig_pending
    /\ slept' = 1
    /\ pc' = "attempt"
    /\ UNCHANGED <<progVars, sleep_time, connection_status, lte_signal,
                   observed, prev, start, decision, reboot_cmd,
                   waitsReturned, cmdsSince, okCmdsSince, afterCooldown>>
    /\ UNCHANGED <<probe_err, svcVars, envVars>>

(* l.244: time.sleep(20), then the while loop of l.236 again.              *)
RetrySleep ==
    /\ pc = "retry"
    /\ ~sig_pending
    /\ slept' = 20
    /\ pc' = "attempt"
    /\ UNCHANGED <<progVars, sleep_time, connection_status, lte_signal,
                   observed, prev, start, decision, reboot_cmd,
                   waitsReturned, cmdsSince, okCmdsSince, afterCooldown>>
    /\ UNCHANGED <<probe_err, svcVars, envVars>>

(* l.357: time.sleep(sleep_time); the next iteration of l.280 begins.      *)
Sleep ==
    /\ pc = "sleep"
    /\ ~sig_pending
    /\ slept' = sleep_time
    /\ pc' = "probe"
    /\ prev' = [obs |-> observed,
                status |-> IF observed = "status" THEN connection_status ELSE "unset"]
    /\ start' = [cc |-> connected_counter, cg |-> connecting_counter,
                 rc |-> restart_counter, ar |-> after_reboot]
    /\ observed' = "none"
    /\ decision' = "none"
    /\ reboot_cmd' = "none"
    /\ UNCHANGED <<progVars, sleep_time, connection_status, lte_signal,
                   waitsReturned, cmdsSince, okCmdsSince, afterCooldown>>
    /\ probe_err' = FALSE
    /\ pass_started' = FALSE
    /\ restart_failed' = FALSE
    /\ svc_cur' = NoService
    /\ UNCHANGED <<passes, svc_idx, envVars>>

(* l.354 for the service at svc_idx, with systemctl found: both predicates *)
(* run it; the service is restarted (l.355) or the loop moves on.          *)
ServiceQuery ==
    /\ pc = "svc_query"
    /\ ~sig_pending
    /\ \E svc \in ServiceStates :
          /\ svc_cur' = svc
          /\ IF ShouldRestart(svc)
               THEN pc' = "svc_restart" /\ UNCHANGED svc_idx
               ELSE NextService
    /\ UNCHANGED <<progVars, sleep_time, connection_status, lte_signal, slept,
                   observed, prev, start, decision, reboot_cmd,
                   waitsReturned, cmdsSince, okCmdsSince, afterCooldown>>
    /\ UNCHANGED <<probe_err, pass_started, passes, restart_failed, envVars>>

(* l.248-250, under l.354 or l.355: shutil.which finds no systemctl and    *)
(* call_systemd raises ValueError, which nothing in run or main catches;   *)
(* the process ends with a traceback.                                      *)
ServiceCrash ==
    /\ pc \in {"svc_query", "svc_restart"}
    /\ ~sig_pending
    /\ pc' = "crashed"
    /\ exit_code' = 1
    /\ UNCHANGED <<progVars, sleep_time, connection_status, lte_signal, slept,
                   observed, prev, start, decision, reboot_cmd,
                   waitsReturned, cmdsSince, okCmdsSince, afterCooldown>>
    /\ UNCHANGED <<probe_err, svcVars, sig_pending, sig_at, ev>>

(* l.355, restart_service (l.265-266), with systemctl found: systemctl     *)
(* restart exits with 0 or not; the result is not looked at and the for    *)
(* loop goes on.                                                           *)
ServiceRestart ==
    /\ pc = "svc_restart"
    /\ ~sig_pending
    /\ \E ok \in BOOLEAN :
          /\ restart_failed' = (restart_failed \/ ~ok)
          /\ NextService
    /\ UNCHANGED <<progVars, sleep_time, connection_status, lte_signal, slept,
                   observed, prev, start, decision, reboot_cmd,
                   waitsReturned, cmdsSince, okCmdsSince, afterCooldown>>
    /\ UNCHANGED <<probe_err, pass_started, passes, svc_cur, envVars>>

Running == pc \notin {"exited", "crashed", "call"}

(* SIGINT is delivered to the process while run is looping.                *)
SigArrive ==
    /\ Running
    /\ ~sig_pending
    /\ sig_pending' = TRUE
    /\ sig_at' = pc
    /\ UNCHANGED <<pc, progVars, sleep_time, connection_status, lte_signal, slept,
                   observed, prev, start, decision, reboot_cmd,
                   waitsReturned, cmdsSince, okCmdsSince, afterCooldown>>
    /\ UNCHANGED <<probe_err, svcVars, exit_code, ev>>

(* The process is gone: what its variables held is discarded (they are    *)
(* given the values of Init, history included).                            *)
Discarded ==
    /\ connected_counter' = 0
    /\ connecting_counter' = 0
    /\ restart_counter' = 0
    /\ after_reboot' = FALSE
    /\ sleep_time' = 0
    /\ connection_status' = "unset"
    /\ lte_signal' = -1
    /\ slept' = 0
    /\ observed' = "none"
    /\ prev' = [obs |-> "none", status |-> "unset"]
    /\ start' = [cc |-> 0, cg |-> 0, rc |-> 0, ar |-> FALSE]
    /\ decision' = "none"
    /\ reboot_cmd' = "none"
    /\ waitsReturned' = 0
    /\ cmdsSince' = 0
    /\ okCmdsSince' = 0
    /\ afterCooldown' = FALSE
    /\ probe_err' = FALSE
    /\ pass_started' = FALSE
    /\ passes' = 0
    /\ restart_failed' = FALSE
    /\ svc_idx' = 0
    /\ svc_cur' = NoService

(* Mutant: the handler exits with status 1.                                *)
SigHandleExitOne ==
    /\ Running
    /\ sig_pending
    /\ pc' = "exited"
    /\ exit_code' = 1
    /\ Discarded
    /\ UNCHANGED <<sig_pending, sig_at, ev>>

(* l.414-416: the handler installed in main interrupts the sleep or the    *)
(* I/O call the loop is in and calls sys.exit(0).                          *)
SigHandle ==
    /\ Running
    /\ sig_pending
    /\ pc' = "exited"
    /\ exit_code' = 0
    /\ Discarded
    /\ UNCHANGED <<sig_pending, sig_at, ev>>

Next ==
    \/ Healthy /\ UNCHANGED gk
    \/ Degraded /\ UNCHANGED gk
    \/ QueryFail /\ UNCHANGED gk
    \/ QueryOk /\ UNCHANGED gk
    \/ RebootCmdOk /\ UNCHANGED gk
    \/ RebootCmdFail /\ UNCHANGED gk
    \/ Settle /\ UNCHANGED gk
    \/ AttemptOk /\ UNCHANGED gk
    \/ AttemptFail /\ UNCHANGED gk
    \/ RetrySleep /\ UNCHANGED gk
    \/ Sleep /\ UNCHANGED gk
    \/ ServiceQuery /\ UNCHANGED gk
    \/ ServiceCrash /\ UNCHANGED gk
    \/ ServiceRestart /\ UNCHANGED gk

(* The loop with no signal delivered.                                      *)
Spec == Init /\ [][Next]_vars

(* The loop with SIGINT delivered at any point.  The handler runs as soon  *)
(* as the interpreter gets the signal: a pending signal is handled, it     *)
(* does not wait for ever.                                                 *)
NextSignal ==
    \/ Next
    \/ SigArrive /\ UNCHANGED gk
    \/ SigHandle /\ UNCHANGED gk

SpecLive ==
    Init /\ [][NextSignal]_vars /\ WF_vars(SigHandle /\ UNCHANGED gk)

(* A single call of is_connection_error, on any inputs.                    *)
InitHealth ==
    /\ pc = "call"
    /\ connected_counter = 0
    /\ connecting_counter = 0
    /\ restart_counter = 0
    /\ after_reboot = FALSE
    /\ sleep_time = 0
    /\ connection_status = "unset"
    /\ lte_signal = -1
    /\ slept = 0
    /\ observed = "none"
    /\ prev = [obs |-> "none", status |-> "unset"]
    /\ start = [cc |-> 0, cg |-> 0, rc |-> 0, ar |-> FALSE]
    /\ decision = "none"
    /\ reboot_cmd = "none"
    /\ waitsReturned = 0
    /\ cmdsSince = 0
    /\ okCmdsSince = 0
    /\ afterCooldown = FALSE
    /\ probe_err = FALSE
    /\ pass_started = FALSE
    /\ passes = 0
    /\ restart_failed = FALSE
    /\ svc_idx = 0
    /\ svc_cur = NoService
    /\ sig_pending = FALSE
    /\ sig_at = "none"
    /\ exit_code = -1
    /\ ev \in EvaluatorCalls
    /\ gk = GranadInit

(* l.220-226 run on the inputs held in ev.                                 *)
Evaluate ==
    /\ pc = "call"
    /\ ~ev.done
    /\ ev' = [ev EXCEPT !.done = TRUE,
                        !.result = is_connection_error(ev.outcome, ev.targets,
                                                       ev.threshold)]
    /\ UNCHANGED <<pc, progVars, sleep_time, connection_status, lte_signal, slept,
                   observed, prev, start, decision, reboot_cmd,
                   waitsReturned, cmdsSince, okCmdsSince, afterCooldown>>
    /\ UNCHANGED <<probe_err, svcVars, sig_pending, sig_at, exit_code>>

NextHealth == Evaluate /\ UNCHANGED gk

SpecHealth == InitHealth /\ [][NextHealth]_vars

TypeOK ==
    /\ gk \in [connected_counter : 0..1, connecting_counter : 0..1,
               after_reboot : BOOLEAN, sleep_time : Nat, rebooted : BOOLEAN]
    /\ pc \in {"probe", "query", "reboot", "settle", "attempt", "retry", "sleep",
               "svc_query", "svc_restart", "crashed", "exited", "call"}
    /\ connected_counter \in 0..1
    /\ connecting_counter \in 0..1
    /\ restart_counter \in 0..max_restarts
    /\ after_reboot \in BOOLEAN
    /\ sleep_time \in {0, 1, 60, 120, 600, 3600, CHECK_INTERVAL}
    /\ connection_status \in Statuses \cup {"unset"}
    /\ lte_signal \in Signals \cup {-1}
    /\ probe_err \in BOOLEAN
    /\ pass_started \in BOOLEAN
    /\ passes \in 0..2
    /\ restart_failed \in BOOLEAN
    /\ svc_idx \in 0..NumServices
    /\ svc_cur \in ServiceStates
    /\ sig_pending \in BOOLEAN
    /\ exit_code \in {-1, 0, 1}
    /\ sig_at \in {"none", "probe", "query", "reboot", "settle", "attempt", "retry",
                    "sleep", "svc_query", "svc_restart"}

-----------------------------------------------------------------------------
(* Vocabulary of the properties.  A poll cycle runs from one "probe" to    *)
(* the Sleep step that ends it; start holds the watchdog state the cycle   *)
(* began with, and connection_status / lte_signal what it observed.        *)

SawStatus(st) == observed = "status" /\ connection_status = st

reboot_issued == reboot_cmd # "none"

InRebootWait == pc \in {"reboot", "settle", "attempt", "retry"}

(* The cycle's observation escalates (spec 4.2 step 2), stated from the    *)
(* observation and the counters the cycle began with.                      *)
EscalatingCycle ==
    /\ observed = "status"
    /\ \/ connection_status \notin {CONNECTED, CONNECTING}
       \/ connection_status = CONNECTED /\ start.cc # 0 /\ lte_signal < 2
       \/ connection_status = CONNECTING /\ start.cg # 0

(* The cycle did what the reboot decision prescribes for the budget it     *)
(* began with: a reboot-wait below the budget, a cooldown at the budget.   *)
DecisionTaken ==
    IF start.rc < max_restarts
      THEN InRebootWait \/ reboot_issued
      ELSE /\ pc = "sleep" /\ ~reboot_issued
           /\ restart_counter = 0 /\ sleep_time = 3600

StateIsStart ==
    /\ connected_counter = start.cc
    /\ connecting_counter = start.cg
    /\ restart_counter = start.rc
    /\ after_reboot = start.ar

-----------------------------------------------------------------------------
(* C1, as claimed: restart_count is in 0..max_restarts and equals the      *)
(* number of reboot-waits returned since the last healthy or cooldown      *)
(* cycle, and at most max_restarts reboot commands are issued without an   *)
(* intervening healthy cycle or cooldown.                                  *)
C1_AsClaimed ==
    /\ restart_counter \in 0..max_restarts
    /\ restart_counter = waitsReturned
    /\ cmdsSince <= max_restarts

(* C1, amended: the same, with the bound on the reboot commands that the   *)
(* device accepted (device.reboot() returned without a response error).    *)
C1_RestartBudget ==
    /\ restart_counter \in 0..max_restarts
    /\ restart_counter = waitsReturned
    /\ okCmdsSince <= max_restarts
    /\ okCmdsSince \in {waitsReturned, waitsReturned + 1}

C1_Witness ==
    /\ pc = "sleep"
    /\ restart_counter = max_restarts
    /\ okCmdsSince = max_restarts
    /\ reboot_cmd = "ok"

(* C2: a cycle that reaches the reboot decision below the budget enters    *)
(* the reboot-wait with restart_count and the pending flag untouched; no   *)
(* step inside the wait changes them; the step in which the wait returns   *)
(* adds exactly 1 to restart_count, sets pending_service_restart and       *)
(* sleep_time = 1, and the cycle then sleeps 1 second and polls again.     *)
C2_RebootThenCount ==
    [][ /\ (pc = "query" /\ EscalatingCycle' /\ restart_counter < max_restarts)
            => (pc' = "reboot" /\ UNCHANGED <<restart_counter, after_reboot>>
                /\ reboot_cmd' = "none")
        /\ (InRebootWait /\ InRebootWait')
            => UNCHANGED <<restart_counter, after_reboot>>
        /\ (pc = "attempt" /\ pc' = "sleep")
            => (/\ restart_counter' = restart_counter + 1
                /\ restart_counter' = start.rc + 1
                /\ after_reboot' = TRUE
                /\ sleep_time' = 1)
        /\ (pc = "sleep" /\ EscalatingCycle /\ reboot_cmd = "ok")
            => (/\ restart_counter = start.rc + 1
                /\ after_reboot = TRUE
                /\ slept' = 1
                /\ pc' = "probe")
      ]_vars

C2_Witness ==
    /\ pc = "probe"
    /\ slept = 1
    /\ prev.obs = "status"
    /\ restart_counter = 2
    /\ after_reboot = TRUE

(* C3: a cycle that reaches the reboot decision with restart_count equal   *)
(* to max_restarts issues no reboot command, resets restart_count to 0 and *)
(* sleeps 3600 seconds; the next cycle that reaches the reboot decision    *)
(* after a cooldown enters the reboot-wait.                                *)
C3_Cooldown ==
    [][ /\ (pc = "query" /\ EscalatingCycle' /\ restart_counter = max_restarts)
            => (/\ pc' = "sleep"
                /\ restart_counter' = 0
                /\ sleep_time' = 3600
                /\ reboot_cmd' = "none")
        /\ (EscalatingCycle /\ start.rc = max_restarts)
            => (/\ pc = "sleep"
                /\ ~reboot_issued
                /\ restart_counter = 0
                /\ slept' = 3600
                /\ pc' = "probe")
        /\ (afterCooldown /\ pc = "query" /\ EscalatingCycle')
            => pc' = "reboot"
      ]_vars

C3_Witness ==
    /\ pc = "settle"
    /\ reboot_cmd = "ok"
    /\ slept = 3600
    /\ prev.obs = "status"
    /\ start.rc = 0

(* C4, as claimed: a cycle that sees Connected with connected_repeat_count *)
(* already nonzero and signal_level < 2 resets connected_repeat_count and  *)
(* takes the reboot decision; begun with connected_repeat_count = 1 and    *)
(* restart_count = 0 and seeing signal 1, it issues a reboot and ends with *)
(* restart_count = 1 and connected_repeat_count = 0.                       *)
C4_AsClaimed ==
    /\ (SawStatus(CONNECTED) /\ start.cc # 0 /\ lte_signal < 2)
        => (connected_counter = 0 /\ DecisionTaken)
    /\ (SawStatus(CONNECTED) /\ start.cc = 1 /\ start.rc = 0 /\ lte_signal = 1
        /\ pc = "sleep")
        => (reboot_issued /\ restart_counter = 1 /\ connected_counter = 0)

(* C4, amended: the same, with restart_count = 1 at the end of the cycle   *)
(* when the reboot command was accepted, and restart_count = 0 when it     *)
(* failed with a response error.                                           *)
C4_BadSignalEscalates ==
    /\ (SawStatus(CONNECTED) /\ start.cc # 0 /\ lte_signal < 2)
        => (connected_counter = 0 /\ DecisionTaken)
    /\ (SawStatus(CONNECTED) /\ start.cc = 1 /\ start.rc = 0 /\ lte_signal = 1
        /\ pc = "sleep")
        => (/\ reboot_issued
            /\ connected_counter = 0
            /\ reboot_cmd = "ok" => restart_counter = 1
            /\ reboot_cmd = "error" => restart_counter = 0)

C4_Witness ==
    /\ SawStatus(CONNECTED) /\ start.cc = 1 /\ start.rc = 0 /\ lte_signal = 1
    /\ pc = "sleep"
    /\ reboot_cmd = "ok"
    /\ restart_counter = 1
    /\ connected_counter = 0

(* C5: a cycle that sees Connected with connected_repeat_count = 0 issues  *)
(* no reboot whatever the signal, sets connected_repeat_count to 1, leaves *)
(* restart_count, connecting_repeat_count and pending_service_restart as   *)
(* they were, and sleeps 60 seconds.                                       *)
C5_FirstConnectedWaits ==
    [][ (SawStatus(CONNECTED) /\ start.cc = 0)
          => (/\ pc = "sleep"
              /\ ~reboot_issued
              /\ connected_counter = 1
              /\ restart_counter = start.rc
              /\ connecting_counter = start.cg
              /\ after_reboot = start.ar
              /\ sleep_time = 60
              /\ slept' = 60
              /\ pc' = "probe")
      ]_vars

C5_Witness ==
    /\ SawStatus(CONNECTED) /\ start.cc = 0 /\ lte_signal = 0
    /\ start.rc = 2 /\ start.cg = 1 /\ start.ar = TRUE
    /\ pc = "sleep"

(* C6: a cycle that sees Connected with signal_level >= 2 issues no reboot *)
(* command; when it is not the first Connected observation it changes no   *)
(* field of the watchdog state and sleeps CHECK_INTERVAL.                  *)
C6_GoodSignalNoReboot ==
    [][ /\ (SawStatus(CONNECTED) /\ lte_signal >= 2)
            => (pc = "sleep" /\ ~reboot_issued /\ pc' = "probe")
        /\ (SawStatus(CONNECTED) /\ lte_signal >= 2 /\ start.cc # 0)
            => (/\ StateIsStart
                /\ sleep_time = CHECK_INTERVAL
                /\ slept' = CHECK_INTERVAL)
      ]_vars

C6_Witness ==
    /\ SawStatus(CONNECTED) /\ lte_signal = 2 /\ start.cc = 1
    /\ start.rc = 3
    /\ pc = "sleep"

(* C7: a cycle that sees Connecting with connecting_repeat_count = 0 sets  *)
(* it to 1, issues no reboot and sleeps 120 seconds; with the counter      *)
(* nonzero it resets the counter to 0 and takes the reboot decision,       *)
(* whatever the signal level.                                              *)
C7_ConnectingTwoTier ==
    [][ /\ (SawStatus(CONNECTING) /\ start.cg = 0)
            => (/\ pc = "sleep"
                /\ ~reboot_issued
                /\ connecting_counter = 1
                /\ restart_counter = start.rc
                /\ sleep_time = 120
                /\ slept' = 120
                /\ pc' = "probe")
        /\ (SawStatus(CONNECTING) /\ start.cg # 0)
            => (connecting_counter = 0 /\ DecisionTaken)
      ]_vars

C7_Witness ==
    /\ SawStatus(CONNECTING) /\ start.cg = 1 /\ lte_signal >= 2
    /\ reboot_cmd = "ok"
    /\ pc = "sleep"
    /\ restart_counter = start.rc + 1

(* C8: a cycle that sees a status other than Connected and Connecting      *)
(* takes the reboot decision in that cycle whatever the repeat counters,   *)
(* and leaves both repeat counters as they were.                           *)
C8_OtherStatusDirect ==
    (observed = "status" /\ connection_status \notin {CONNECTED, CONNECTING})
      => (/\ DecisionTaken
          /\ connected_counter = start.cc
          /\ connecting_counter = start.cg)

C8_Witness ==
    /\ SawStatus("Disconnected")
    /\ start.cc = 1 /\ start.cg = 1
    /\ reboot_cmd = "ok"
    /\ pc = "sleep"
    /\ restart_counter = start.rc + 1

(* C9, as claimed: a cycle that sees Connected or Connecting reaches the   *)
(* reboot decision only if the cycle directly before it was degraded and   *)
(* saw that same status.                                                   *)
C9_AsClaimed ==
    (observed = "status" /\ connection_status \in {CONNECTED, CONNECTING}
     /\ decision # "none")
      => (prev.obs = "status" /\ prev.status = connection_status)

(* C10: a cycle whose device query fails issues no reboot, leaves the four *)
(* fields of the watchdog state as they were and sleeps 600 seconds.       *)
C10_QueryFailureBacksOff ==
    [][ (observed = "queryfail")
          => (/\ pc = "sleep"
              /\ ~reboot_issued
              /\ StateIsStart
              /\ sleep_time = 600
              /\ slept' = 600
              /\ pc' = "probe")
      ]_vars

C10_Witness ==
    /\ observed = "queryfail"
    /\ pc = "sleep"
    /\ start.cc = 1 /\ start.cg = 1 /\ start.rc = 4 /\ start.ar = TRUE

(* C11, as claimed: every healthy cycle sets the three counters to 0 and   *)
(* goes on to sleep the normal poll interval.                              *)
C11_AsClaimed ==
    (observed = "healthy")
      => (/\ connected_counter = 0
          /\ connecting_counter = 0
          /\ restart_counter = 0
          /\ sleep_time = CHECK_INTERVAL
          /\ pc \in {"svc_query", "svc_restart", "sleep"})

(* The part of C11 that the loop keeps: a healthy cycle leaves the three   *)
(* counters at 0, and when it reaches l.357 it sleeps the poll interval.   *)
HealthyCountersReset ==
    [][ (observed = "healthy")
          => (/\ connected_counter = 0
              /\ connecting_counter = 0
              /\ restart_counter = 0
              /\ (pc = "sleep" => (slept' = CHECK_INTERVAL /\ pc' = "probe")))
      ]_vars

(* C12: the first healthy cycle that finds after_reboot set enters the     *)
(* service loop once and clears the flag; a healthy cycle that does not    *)
(* find it set, in particular one that follows a healthy cycle, does not   *)
(* enter it; the loop is entered at most once per returned reboot-wait.    *)
C12_OnePassPerReboot ==
    /\ (observed = "healthy" /\ start.ar) => (pass_started /\ ~after_reboot)
    /\ (observed = "healthy" /\ ~start.ar) => ~pass_started
    /\ (observed = "healthy" /\ prev.obs = "healthy") => ~pass_started
    /\ (observed # "healthy") => ~pass_started
    /\ passes <= 1

C12_Witness ==
    /\ observed = "healthy"
    /\ prev.obs = "healthy"
    /\ pc = "sleep"
    /\ passes = 1
    /\ ~pass_started
    /\ ~after_reboot

(* C13, as claimed: at the end of a cycle after_reboot has been set in it  *)
(* if and only if the cycle issued a reboot command.                       *)
C13_AsClaimed ==
    (pc = "sleep")
      => (/\ reboot_issued => after_reboot
          /\ (~reboot_issued /\ after_reboot) => start.ar)

(* C13: after_reboot becomes true only in the step in which the            *)
(* reboot-wait of an accepted reboot command returns; a cycle whose        *)
(* reboot-wait returned ends with the flag set, and a cycle without one    *)
(* (a wait, a cooldown, a failed query, a refused reboot command) does not *)
(* set it.                                                                 *)
C13_FlagSetByRebootWait ==
    [][ /\ (after_reboot' /\ ~after_reboot)
            => (pc = "attempt" /\ pc' = "sleep" /\ reboot_cmd = "ok")
        /\ (pc = "sleep")
            => (/\ (reboot_cmd = "ok") => after_reboot
                /\ (reboot_cmd # "ok" /\ after_reboot) => start.ar
                /\ (reboot_cmd = "error") => (after_reboot = start.ar))
      ]_vars

C13_Witness ==
    /\ pc = "sleep"
    /\ reboot_cmd = "ok"
    /\ after_reboot
    /\ ~start.ar

(* C14, as claimed: at most one of the two repeat counters is nonzero.     *)
C14_AsClaimed ==
    ~(connected_counter # 0 /\ connecting_counter # 0)

(* C15, as claimed: when the probe returns, is_connection_error returns    *)
(* True exactly when unreachable / total * 100 exceeds the threshold; a    *)
(* rate equal to the threshold gives False.                                *)
C15_AsClaimed ==
    (ev.done /\ ~ev.outcome.err)
      => (ev.result <=> (ev.outcome.no * 100 > ev.threshold * ev.targets))

(* C16: when the probe raises MultiPingSocketError, is_connection_error    *)
(* returns, and returns True, whatever the targets and the threshold.      *)
C16_TransportErrorDegraded ==
    (ev.done /\ ev.outcome.err) => (ev.result = TRUE)

C16_Witness ==
    /\ ev.done
    /\ ev.outcome.err
    /\ ev.result
    /\ ev.threshold = MaxThreshold
    /\ ev.targets = 1

(* C17, as claimed: a cycle whose probe raised is degraded and ends with   *)
(* the four fields of the watchdog state as it found them.                 *)
C17_AsClaimed ==
    [][ /\ probe_err' => (pc' = "query")
        /\ (probe_err /\ pc' = "sleep")
            => (/\ connected_counter' = start.cc
                /\ connecting_counter' = start.cg
                /\ restart_counter' = start.rc
                /\ after_reboot' = start.ar)
      ]_vars

(* C17: a cycle whose probe raised is degraded: it goes on to query the    *)
(* device, it is not a healthy cycle and does not enter the service loop;  *)
(* the probe itself changes no field of the watchdog state, which is as    *)
(* the cycle found it when the device is queried.                          *)
C17_TransportErrorIsDegraded ==
    probe_err
      => (/\ pc = "query"
          /\ observed = "none"
          /\ ~pass_started
          /\ StateIsStart)

C17_Witness ==
    /\ probe_err
    /\ pc = "query"
    /\ start.cc = 1
    /\ start.rc = 2
    /\ start.ar

(* A step of the service loop that runs the test of l.354 to its end.      *)
QueryStep == pc = "svc_query" /\ pc' \in {"svc_query", "svc_restart", "sleep"}

(* C18, as claimed: in the service loop a service is restarted if and only *)
(* if systemctl reports it enabled or active.                              *)
C18_AsClaimed ==
    [][ QueryStep
          => ((pc' = "svc_restart") <=> (svc_cur'.enabled \/ svc_cur'.active))
      ]_vars

(* C19, as claimed: after restart_service, whatever its result, the loop   *)
(* goes to the next service or, after the last one, to the sleep; and a    *)
(* service handled after a failed restart is restarted if and only if it   *)
(* is enabled or active.                                                   *)
C19_AsClaimed ==
    [][ /\ (pc = "svc_restart" /\ pc' # "crashed")
            => (pc' = IF svc_idx = NumServices THEN "sleep" ELSE "svc_query")
        /\ (restart_failed /\ QueryStep)
            => ((pc' = "svc_restart") <=> (svc_cur'.enabled \/ svc_cur'.active))
      ]_vars

(* The part of C19 that the loop keeps: the result of restart_service does *)
(* not change where the loop goes next.                                    *)
RestartFailureDoesNotAbort ==
    [][ (pc = "svc_restart" /\ pc' # "crashed")
          => (/\ pc' = IF svc_idx = NumServices THEN "sleep" ELSE "svc_query"
              /\ svc_idx' = IF svc_idx = NumServices THEN 0 ELSE svc_idx + 1)
      ]_vars

(* C20: a SIGINT delivered while the loop runs, wherever it is, leads to   *)
(* the process exiting with status 0; the process exits only this way with *)
(* status 0, and once it has exited nothing happens any more: no poll      *)
(* cycle, no reboot command.                                               *)
C20_SigintExits ==
    /\ sig_pending ~> (pc = "exited" /\ exit_code = 0)
    /\ [](pc = "exited" => (exit_code = 0 /\ sig_pending))
    /\ [][pc # "exited"]_vars

C20_Witness ==
    /\ pc = "exited"
    /\ exit_code = 0
    /\ sig_at = "retry"

-----------------------------------------------------------------------------
(* The loop with a device that comes back.  run is a sequential program:   *)
(* every sleep ends and every call returns or raises, so some step is      *)
(* always taken (weak fairness of Next); and the device eventually answers *)
(* the post-reboot status fetch of l.238-239 as long as the fetch goes on  *)
(* being attempted (strong fairness of AttemptOk).                         *)
SpecWait ==
    Init /\ [][Next]_vars /\ WF_vars(Next) /\ SF_vars(AttemptOk /\ UNCHANGED gk)

(* The two loops side by side, fed the same observations: each probe has   *)
(* the same outcome for both, and a degraded probe is followed by the same *)
(* status and signal level from the modem.  Every device query and every   *)
(* reboot command succeeds, and no probe raises (is_connection_error of    *)
(* granad_gatekeeper, l.202-206, has no handler for it).                   *)
NextPair ==
    \/ Healthy /\ GranadHealthyCycle
    \/ Degraded /\ ~probe_err' /\ UNCHANGED gk
    \/ QueryOk /\ GranadDegradedCycle(connection_status', lte_signal')
    \/ RebootCmdOk /\ UNCHANGED gk
    \/ Settle /\ UNCHANGED gk
    \/ AttemptOk /\ UNCHANGED gk
    \/ AttemptFail /\ UNCHANGED gk
    \/ RetrySleep /\ UNCHANGED gk
    \/ Sleep /\ UNCHANGED gk
    \/ ServiceQuery /\ UNCHANGED gk
    \/ ServiceCrash /\ UNCHANGED gk
    \/ ServiceRestart /\ UNCHANGED gk

SpecPair == Init /\ [][NextPair]_vars

-----------------------------------------------------------------------------
(* Failure handling of the loop and the reboot-wait protocol.              *)

(* C21, as claimed: once the loop runs nothing terminates it.  A probing   *)
(* failure is taken as degraded, a failed device query and a failed reboot *)
(* command end the cycle with a 600-second sleep, a failed post-reboot     *)
(* attempt is retried, and every sleep is followed by the next poll; no    *)
(* step leaves the loop with an error.                                     *)
C21_AsClaimed ==
    [][ /\ pc' # "crashed"
        /\ probe_err' => pc' = "query"
        /\ (observed' = "queryfail" /\ observed # "queryfail")
              => (pc' = "sleep" /\ sleep_time' = 60 * 10)
        /\ (reboot_cmd' = "error" /\ reboot_cmd # "error")
              => (pc' = "sleep" /\ sleep_time' = 60 * 10)
        /\ (pc = "attempt" /\ pc' # "sleep") => pc' = "retry"
        /\ pc = "sleep" => pc' = "probe"
      ]_vars

(* The part of C21 that the loop keeps: the four failures it names are     *)
(* absorbed and the loop goes on.                                          *)
NamedFailuresAbsorbed ==
    [][ /\ probe_err' => pc' = "query"
        /\ (observed' = "queryfail" /\ observed # "queryfail")
              => (pc' = "sleep" /\ sleep_time' = 60 * 10)
        /\ (reboot_cmd' = "error" /\ reboot_cmd # "error")
              => (pc' = "sleep" /\ sleep_time' = 60 * 10)
        /\ (pc = "attempt" /\ pc' # "sleep") => pc' = "retry"
        /\ pc = "sleep" => pc' = "probe"
      ]_vars

C23_RebootWaitProtocol ==
    [][ /\ pc = "reboot" => \/ pc' = "settle" /\ reboot_cmd' = "ok"
                            \/ pc' = "sleep" /\ reboot_cmd' = "error"
        /\ pc = "settle" => (pc' = "attempt" /\ slept' = 20)
        /\ pc = "attempt" => \/ pc' = "sleep" /\ waitsReturned' = waitsReturned + 1
                             \/ pc' = "retry" /\ waitsReturned' = waitsReturned
        /\ pc = "retry" => (pc' = "attempt" /\ slept' = 20)
        /\ pc' = "settle" => pc = "reboot"
        /\ pc' = "attempt" => pc \in {"settle", "retry"}
        /\ pc' = "retry" => pc = "attempt"
        /\ waitsReturned' = waitsReturned + 1 => pc = "attempt"
      ]_vars

C23_Witness ==
    /\ pc = "attempt"
    /\ reboot_cmd = "ok"
    /\ slept = 20
    /\ waitsReturned = 1

(* C25: in every reachable state restart_counter > 0 implies after_reboot. *)
(* The converse does not hold: a cooldown leaves restart_counter at 0 and  *)
(* the flag set, and the healthy cycle that follows the cooldown's sleep   *)
(* starts the pass over the services.                                      *)
C25_CountImpliesFlag ==
    /\ [](restart_counter > 0 => after_reboot)
    /\ [](decision = "cooldown" => (restart_counter = 0 /\ after_reboot))
    /\ [][ (pc = "probe" /\ slept = 60 * 60 /\ observed' = "healthy")
              => pass_started' ]_vars

C25_Witness ==
    /\ observed = "healthy"
    /\ slept = 60 * 60
    /\ pass_started
    /\ restart_counter = 0

(* C26: a cycle whose reboot command fails with a response error sleeps    *)
(* 600 seconds; restart_counter and after_reboot are what they were when   *)
(* the cycle began, while the repeat counter of a Connected or Connecting  *)
(* observation, non-zero when the cycle began, is already 0.               *)
C26_RebootCommandFailure ==
    /\ [](reboot_cmd = "error"
            => (/\ pc = "sleep"
                /\ sleep_time = 60 * 10
                /\ restart_counter = start.rc
                /\ after_reboot = start.ar
                /\ SawStatus(CONNECTED)
                      => (start.cc # 0 /\ connected_counter = 0)
                /\ SawStatus(CONNECTING)
                      => (start.cg # 0 /\ connecting_counter = 0)))
    /\ [][reboot_cmd = "error" => (slept' = 60 * 10 /\ pc' = "probe")]_vars

C26_Witness ==
    /\ reboot_cmd = "error"
    /\ SawStatus(CONNECTED)
    /\ start.cc = 1 /\ connected_counter = 0
    /\ start.rc = 0 /\ restart_counter = 0
    /\ ~start.ar /\ ~after_reboot

(* The post-reboot polling of restart_modem_and_wait_for_alive, l.234-244. *)
Polling == pc \in {"settle", "attempt", "retry"}

(* C24: the reboot-wait has no attempt cap.  With a device that eventually *)
(* answers the post-reboot status fetch, a reboot-wait that polls leads to *)
(* its return and to the next poll cycle.  The polling is left only by a   *)
(* successful attempt, after any number of failed ones: without an answer  *)
(* the loop stays in the reboot-wait, so no probe, no reboot command and   *)
(* no service restart follows.                                             *)
C24_WaitEndsOnlyOnAnswer ==
    /\ Polling ~> (pc = "probe" /\ after_reboot /\ slept = 1)
    /\ [][ (Polling /\ ~Polling')
              => (/\ pc = "attempt"
                  /\ waitsReturned' = waitsReturned + 1
                  /\ pc' = "sleep") ]_vars
    /\ [][ Polling
              => (/\ pc' \notin {"probe", "reboot", "svc_query", "svc_restart"}
                  /\ reboot_cmd' = reboot_cmd
                  /\ cmdsSince' = cmdsSince) ]_vars

C24_Witness ==
    /\ pc = "sleep"
    /\ reboot_cmd = "ok"
    /\ waitsReturned = max_restarts
    /\ restart_counter = max_restarts

(* C27: fed the same observations, with every reboot command succeeding,   *)
(* the loop of granad_gatekeeper keeps the same connected and connecting   *)
(* counters as netkeeper's loop, and the same pending flag whenever        *)
(* netkeeper is not inside a reboot-wait; it calls device.reboot() in      *)
(* exactly the cycles in which netkeeper reaches the reboot decision, be   *)
(* it a reboot or a cooldown, hence in every escalating cycle whatever the *)
(* number of reboots before it.                                            *)
C27_SameCountersNoBudget ==
    /\ gk.connected_counter = connected_counter
    /\ gk.connecting_counter = connecting_counter
    /\ ~InRebootWait => (gk.after_reboot = after_reboot)
    /\ (observed # "none") => (gk.rebooted <=> decision \in {"reboot", "cooldown"})
    /\ EscalatingCycle => gk.rebooted

C27_Witness ==
    /\ pc = "sleep"
    /\ decision = "cooldown"
    /\ start.rc = max_restarts
    /\ gk.rebooted
    /\ gk.after_reboot /\ after_reboot
    /\ SawStatus(CONNECTING)
    /\ gk.connecting_counter = 0 /\ connecting_counter = 0

====
